---- MODULE Spec2Model ----
(***************************************************************************)
(* Test progression, scoring engine and accounts of the virtualtest        *)
(* backend (app/routers, app/repositories/test_repository.py,              *)
(* app/services/ai_service.py, app/models, app/core/security.py).          *)
(*                                                                         *)
(* Representation                                                          *)
(*  - test_sessions is the test_sessions table: a sequence of rows whose   *)
(*    index is the autoincrement primary key.                              *)
(*  - module_scores is the module_scores table, kept as a bag of rows      *)
(*    [session_id, module_name, score, cefr_level].  No handler reads the  *)
(*    row id and no query orders the rows, so the order of a SELECT is     *)
(*    unspecified and a bag keeps everything the handlers can observe.     *)
(*  - a score is an integer number of hundredths of a point (8550 is       *)
(*    85.50); a mean is the exact fraction [num, den] of such scores.      *)
(*  - a nullable column holds None (<<>>) or Some(v) (<<v>>).              *)
(*  - now is datetime.utcnow(), advanced at each persisted timestamp.      *)
(*  - response is the HTTP response of the request handled last.           *)
(*  - inflight holds the requests that are suspended at an await (used by  *)
(*    the interleaved specification only).                                 *)
(*  - save_score, save_final_result and create_session wrap their write    *)
(*    in try/except: the write either commits or raises, is rolled back    *)
(*    and the function returns False/None.  Spec takes every write to      *)
(*    commit; SpecFaults lets each write take either outcome.              *)
(*  - the repository names the completion time of a ModuleScore            *)
(*    completed_at (save_score, get_scores) where the mapping in           *)
(*    models/module_score.py names the column test_date; the model follows *)
(*    the repository, and the exception the mismatch raises is one of the  *)
(*    faults of SpecFaults.                                                *)
(*  - call is the last direct call of a function of the services: its     *)
(*    name, its arguments and what it returned.                            *)
(*  - users is the users table (rows [id, email, password_hash, role,      *)
(*    account_status]), tokens the access tokens the server has signed,    *)
(*    redis the cache r of verification codes (one value per key),         *)
(*    outbox the mail queued last, admin_settings the active row of        *)
(*    AdminSettings or None (app/routers/auth.py, app/routers/admin.py).   *)
(*    cache tells which store r is, the Redis server or the FakeRedis of   *)
(*    the fallback; expiry is, for each key, the time its setex asked the  *)
(*    store to drop it at, until the key is deleted.  Redis drops the key  *)
(*    at that time; FakeRedis keeps no such time, and the model keeps it   *)
(*    as the history of the calls.  now counts seconds.                    *)
(*    SpecAuth puts every handler behind get_current_user; SpecOtp is the  *)
(*    registration and password reset flow with a cache that may fail.     *)
(***************************************************************************)
EXTENDS Integers, Sequences, FiniteSets, Bags, TLC

VARIABLES test_sessions, module_scores, now, response, inflight, call,
          users, tokens, redis, outbox, admin_settings, cache, expiry

vars == <<test_sessions, module_scores, now, response, inflight, call,
          users, tokens, redis, outbox, admin_settings, cache, expiry>>

\* the accounts, the access tokens issued, the cache of verification codes,
\* the mails queued and the configuration of the administrators
accounts == <<users, tokens, redis, outbox, admin_settings, cache, expiry>>

\* what the handlers of the test router leave alone
rest == <<call, accounts>>

\* what the handlers of the auth and admin routers leave alone
tests == <<test_sessions, module_scores, now, inflight, call>>

(***************************************************************************)
(* Bounds of the model                                                     *)
(***************************************************************************)
NumUsers == 2
MaxSessions == 2
MaxScores == 4
MaxClock == 3
MaxInFlight == 2
MaxAnswers == 2
MaxScoreList == 2

MaxCompleted == 4

MaxCodes == 2

MaxAuthSessions == 1

MaxAuthScores == 1

MaxSeconds == 901

TickSeconds == 300

Users == 1..NumUsers
SessionIds == 1..MaxSessions

(***************************************************************************)
(* Values                                                                  *)
(***************************************************************************)
None == <<>>
Some(v) == <<v>>

all_modules == <<"reading", "listening", "speaking", "writing">>
ModuleName == {"reading", "listening", "speaking", "writing"}

\* one point of score, in the unit of the model (hundredths)
Point == 100

RECURSIVE SumOver(_, _)
SumOver(S, f) ==
  IF S = {} THEN 0
  ELSE LET x == CHOOSE y \in S : TRUE IN f[x] + SumOver(S \ {x}, f)

RECURSIVE SumSeq(_)
SumSeq(s) == IF s = <<>> THEN 0 ELSE Head(s) + SumSeq(Tail(s))

\* the request bodies and provider replies the handlers are driven with.
\* An environment env fixes what a specification draws from: the bodies of
\* objective submissions (payloads), what the provider answers to the rating
\* prompt (replies: a number, or other text) and whether writes may fail
\* (faults).
ExamplePayload ==
  [user_answers |-> Some(<<"1", "9", "0">>), correct_answers |-> Some(<<"1", "2", "0">>),
   weights |-> Some(<<30, 40, 30>>)]

NegativeWeightPayload ==
  [user_answers |-> Some(<<"3", "1">>), correct_answers |-> Some(<<"0", "1">>),
   weights |-> Some(<<-10, 20>>)]

\* what the provider does when asked to rate: it answers with a number, it
\* answers with other text, the call raises, or the engine has no model
\* (GEMINI_API_KEY is not set)
Number(v) == [kind |-> "number", value |-> v]

Text == [kind |-> "text", value |-> 0]

Raises == [kind |-> "raises", value |-> 0]

Unavailable == [kind |-> "unavailable", value |-> 0]

PlainEnv ==
  [payloads |-> {ExamplePayload}, replies |-> {Number(85 * Point)}, faults |-> FALSE,
   max_sessions |-> MaxSessions, max_scores |-> MaxScores]

FaultEnv == [PlainEnv EXCEPT !.faults = TRUE]

ScoreEnv ==
  [payloads |-> {ExamplePayload, NegativeWeightPayload},
   replies |-> {Number(85 * Point), Number(150 * Point), Text},
   faults |-> FALSE, max_sessions |-> MaxSessions, max_scores |-> MaxScores]

\* the outcomes of a write wrapped in try/except: TRUE is the commit, FALSE
\* the exception that is rolled back; without storage faults every write
\* commits
StorageOutcomes(faults) == IF faults THEN {TRUE, FALSE} ELSE {TRUE}

(***************************************************************************)
(* app/services/ai_service.py                                              *)
(***************************************************************************)
\* round(x, 2) of the quotient n / d (d > 0), in hundredths
Round2(n, d) == (2 * n + d) \div (2 * d)

\* str.strip() and str.upper() on the answer texts of the model; the digits
\* are str(n) of an integer answer
strip(a) ==
  CASE a = " a" -> "a"
    [] a = " " -> ""
    [] OTHER -> a

upper(a) ==
  CASE a = "a" -> "A"
    [] a = " a" -> " A"
    [] a = "b" -> "B"
    [] OTHER -> a

\* str(a).strip().upper() == str(b).strip().upper()
SameAnswer(a, b) == upper(strip(a)) = upper(strip(b))

\* evaluate_response: the objective branch (Reading, Listening).  A list of
\* the request is None (<<>>) or Some(list); len(None) in the loop raises
\* and the except clause returns 0.0
evaluate_objective(data) ==
  IF data.correct_answers = None \/ data.correct_answers = Some(<< >>) THEN 0
  ELSE LET correct_answers == data.correct_answers[1]
           weights == IF \/ data.weights = None
                         \/ data.weights = Some(<< >>)
                         \/ Len(data.weights[1]) # Len(correct_answers)
                      THEN [i \in 1..Len(correct_answers) |-> 1]
                      ELSE data.weights[1]
           max_possible == SumSeq(weights)
       IN IF data.user_answers = None THEN 0
          ELSE LET user_answers == data.user_answers[1]
                   matched == {i \in 1..Len(correct_answers) :
                                 /\ i <= Len(user_answers)
                                 /\ SameAnswer(user_answers[i], correct_answers[i])}
                   total_score == SumOver(matched, weights)
               IN IF max_possible > 0
                  THEN Round2(total_score * 100 * Point, max_possible)
                  ELSE 0

\* evaluate_subjective with a middle score in place of the except clause
evaluate_subjective_default(reply) ==
  IF reply.kind = "number" THEN reply.value ELSE 50 * Point

\* evaluate_response: the subjective branch (Writing, Speaking);
\* float(response.text.strip()) raises on text that is no number, the call
\* of the provider may raise, and the except clause returns 0.0
evaluate_subjective(reply) ==
  IF reply.kind = "number" THEN reply.value ELSE 0

\* evaluate_response(text), text the JSON of data; "if not self.model"
\* returns 0.0 before the type is looked at
evaluate_response(data, reply) ==
  IF reply.kind = "unavailable" THEN 0
  ELSE IF data.type \in {"Writing", "Speaking"} THEN evaluate_subjective(reply)
  ELSE IF data.type \in {"Reading", "Listening"} THEN evaluate_objective(data)
  ELSE 0

\* calculate_overall_cefr with the thresholds excluded (avg > 90, ...)
calculate_overall_cefr_exclusive(scores) ==
  LET sum == SumSeq(scores)
      n == Len(scores)
  IN IF scores = <<>> THEN "A1"
     ELSE IF sum > 90 * Point * n THEN "C2"
     ELSE IF sum > 80 * Point * n THEN "C1"
     ELSE IF sum > 65 * Point * n THEN "B2"
     ELSE IF sum > 50 * Point * n THEN "B1"
     ELSE IF sum > 35 * Point * n THEN "A2"
     ELSE "A1"

\* calculate_overall_cefr(scores), scores a sequence
calculate_overall_cefr(scores) ==
  LET sum == SumSeq(scores)
      n == Len(scores)
  IN IF scores = <<>> THEN "A1"
     ELSE IF sum >= 90 * Point * n THEN "C2"
     ELSE IF sum >= 80 * Point * n THEN "C1"
     ELSE IF sum >= 65 * Point * n THEN "B2"
     ELSE IF sum >= 50 * Point * n THEN "B1"
     ELSE IF sum >= 35 * Point * n THEN "A2"
     ELSE "A1"

\* ModuleScore.score_to_cefr(score), score in hundredths
score_to_cefr(score) ==
  IF score <= 20 * Point THEN "A1"
  ELSE IF score <= 40 * Point THEN "A2"
  ELSE IF score <= 60 * Point THEN "B1"
  ELSE IF score <= 80 * Point THEN "B2"
  ELSE IF score <= 90 * Point THEN "C1"
  ELSE "C2"

\* module_name.capitalize()
capitalize(m) ==
  CASE m = "reading" -> "Reading"
    [] m = "listening" -> "Listening"
    [] m = "speaking" -> "Speaking"
    [] m = "writing" -> "Writing"

(***************************************************************************)
(* app/repositories/test_repository.py                                     *)
(***************************************************************************)
\* TestSession(student_id, start_date, is_completed=False), added and committed
create_session(sessions, student_id, t) ==
  Append(sessions,
         [id |-> Len(sessions) + 1,
          student_id |-> student_id,
          start_date |-> t,
          completion_date |-> None,
          overall_cefr_level |-> None,
          is_completed |-> FALSE,
          overall_score |-> None])

\* save_score that keeps one row per session: the rows the session has are
\* deleted before the new one is added
save_score_overwrite(scores, session_id, module, score, cefr_level) ==
  LET kept == {r \in BagToSet(scores) : r.session_id # session_id}
  IN [r \in kept |-> scores[r]]
     (+) SetToBag({[session_id |-> session_id,
                    module_name |-> module,
                    score |-> score,
                    cefr_level |-> cefr_level]})

\* save_score under a unique constraint on (session_id, module_name): the
\* second row of a pair is refused
save_score_unique(scores, session_id, module, score, cefr_level) ==
  IF \E r \in BagToSet(scores) : r.session_id = session_id /\ r.module_name = module
  THEN scores
  ELSE scores (+) SetToBag({[session_id |-> session_id,
                             module_name |-> module,
                             score |-> score,
                             cefr_level |-> cefr_level]})

\* ModuleScore(session_id, module_name, score, cefr_level), added and committed
save_score(scores, session_id, module, score, cefr_level) ==
  scores (+) SetToBag({[session_id |-> session_id,
                        module_name |-> module,
                        score |-> score,
                        cefr_level |-> cefr_level]})

\* save_final_result that sets the flag and the date and leaves the overall
\* score and level for a second update
save_final_result_partial(sessions, session_id, overall_score, cefr_level, t) ==
  [i \in DOMAIN sessions |->
     IF sessions[i].id = session_id
     THEN [sessions[i] EXCEPT !.is_completed = TRUE,
                              !.completion_date = Some(t)]
     ELSE sessions[i]]

\* UPDATE test_sessions SET is_completed, completion_date, overall_score,
\* overall_cefr_level WHERE id = session_id
save_final_result(sessions, session_id, overall_score, cefr_level, t) ==
  [i \in DOMAIN sessions |->
     IF sessions[i].id = session_id
     THEN [sessions[i] EXCEPT !.is_completed = TRUE,
                              !.completion_date = Some(t),
                              !.overall_score = Some(overall_score),
                              !.overall_cefr_level = Some(cefr_level)]
     ELSE sessions[i]]

\* SELECT ... WHERE id = session_id; scalar_one_or_none()
repository_get_session(sessions, session_id) ==
  IF session_id \in DOMAIN sessions THEN Some(sessions[session_id]) ELSE None

\* get_active_session that finds no row
get_active_session_none(sessions, student_id) ==
  [raised |-> FALSE, row |-> None]

\* get_active_session without WHERE is_completed = False: the student's
\* latest session, completed or not
get_active_session_latest(sessions, student_id) ==
  LET rows == {i \in DOMAIN sessions : sessions[i].student_id = student_id}
  IN IF rows = {} THEN [raised |-> FALSE, row |-> None]
     ELSE [raised |-> FALSE,
           row |-> Some(sessions[CHOOSE i \in rows : \A j \in rows : j <= i])]

\* SELECT ... WHERE student_id = .. AND is_completed = False;
\* scalar_one_or_none() raises MultipleResultsFound on two rows
get_active_session(sessions, student_id) ==
  LET rows == {i \in DOMAIN sessions :
                 sessions[i].student_id = student_id /\ ~sessions[i].is_completed}
  IN IF rows = {} THEN [raised |-> FALSE, row |-> None]
     ELSE IF Cardinality(rows) = 1
          THEN [raised |-> FALSE, row |-> Some(sessions[CHOOSE i \in rows : TRUE])]
          ELSE [raised |-> TRUE, row |-> None]

\* the rows of one session
SessionRows(scores, session_id) ==
  {r \in BagToSet(scores) : r.session_id = session_id}

\* SELECT module_name WHERE session_id = ..: the list of names, one per row,
\* as the bag of its elements
get_completed_modules(scores, session_id) ==
  LET rows == SessionRows(scores, session_id)
      names == {r.module_name : r \in rows}
  IN [m \in names |-> SumOver({r \in rows : r.module_name = m}, scores)]

\* get_scores: the dict module_name -> row built from the rows of the
\* session of that student; with several rows of one module the row that
\* is read last stays in the dict.  The except clause returns {}.
get_scores(sessions, scores, student_id, session_id, faults) ==
  LET found == {i \in DOMAIN sessions :
                  sessions[i].student_id = student_id /\ sessions[i].id = session_id}
      rows == SessionRows(scores, session_id)
      names == {r.module_name : r \in rows}
  IN IF found = {} THEN {<<>>}
     ELSE {d \in [names -> rows] : \A m \in names : d[m].module_name = m}
          \cup (IF faults THEN {<<>>} ELSE {})

(***************************************************************************)
(* app/routers/test.py                                                     *)
(***************************************************************************)
\* the remaining modules with writing ahead of speaking
get_remaining_modules_writing_first(completed) ==
  SelectSeq(<<"reading", "listening", "writing", "speaking">>,
            LAMBDA m : ~BagIn(m, completed))

get_remaining_modules(completed) ==
  SelectSeq(all_modules, LAMBDA m : ~BagIn(m, completed))

get_next_module(completed) ==
  LET remaining == get_remaining_modules(completed)
  IN IF remaining # <<>> THEN Some(remaining[1]) ELSE None

\* the response of a handler: its name, the HTTP status and the id of the
\* session whose data the body carries (0: the body carries no session data)
Respond(op, status, session_id) ==
  response' = [op |-> op, status |-> status, session_id |-> session_id, detail |-> ""]

\* an HTTPException whose detail tells its cause from another of the same
\* status
Reject(op, status, detail) ==
  response' = [op |-> op, status |-> status, session_id |-> 0, detail |-> detail]

\* the session check without the comparison of the owner
NotFoundOrForeign_unowned(session, user) ==
  session = None

\* "if not session or session.student_id != current_user.id"
NotFoundOrForeign(session, user) ==
  session = None \/ session[1].student_id # user

\* the mean sum(all_scores) / len(all_scores) as an exact fraction
Mean(all_scores) == [num |-> SumSeq(all_scores), den |-> Len(all_scores)]

\* [s["score"] for s in scores_dict.values()]
ScoreValues(scores_dict) ==
  LET names == SelectSeq(all_modules, LAMBDA m : m \in DOMAIN scores_dict)
  IN [i \in 1..Len(names) |-> scores_dict[names[i]].score]

\* start_test from the result of get_active_session on
start_test_respond(active, user, env) ==
  IF active.raised
  THEN Respond("start_test", 500, 0) /\ UNCHANGED <<test_sessions, now>>
  ELSE IF active.row # None
  THEN Respond("start_test", 201, active.row[1].id) /\ UNCHANGED <<test_sessions, now>>
  ELSE \E committed \in StorageOutcomes(env.faults) :
         IF committed
         THEN /\ Len(test_sessions) < env.max_sessions
              /\ now <= MaxClock
              /\ test_sessions' = create_session(test_sessions, user, now)
              /\ now' = now + 1
              /\ Respond("start_test", 201, Len(test_sessions) + 1)
         ELSE Respond("start_test", 500, 0) /\ UNCHANGED <<test_sessions, now>>

\* POST /test/start
start_test(user, env) ==
  /\ UNCHANGED <<module_scores, inflight, rest>>
  /\ start_test_respond(get_active_session(test_sessions, user), user, env)

\* GET /test/session/{session_id}
get_session(user, session_id) ==
  /\ UNCHANGED <<test_sessions, module_scores, now, inflight, rest>>
  /\ LET session == repository_get_session(test_sessions, session_id)
     IN IF session = None THEN Respond("get_session", 404, 0)
        ELSE IF session[1].student_id # user THEN Respond("get_session", 403, 0)
        ELSE Respond("get_session", 200, session_id)

\* GET /test/progress/{session_id}
get_progress(user, session_id) ==
  /\ UNCHANGED <<test_sessions, module_scores, now, inflight, rest>>
  /\ LET session == repository_get_session(test_sessions, session_id)
     IN IF NotFoundOrForeign(session, user) THEN Respond("get_progress", 404, 0)
        ELSE Respond("get_progress", 200, session_id)

\* start_module without the check of the completed modules
start_module_status_unchecked(session, user, completed, module_name) ==
  IF session = None \/ session[1].student_id # user THEN 404
  ELSE IF session[1].is_completed THEN 400
  ELSE 200

\* the status start_module answers with before it asks for content
start_module_status(session, user, completed, module_name) ==
  IF NotFoundOrForeign(session, user) THEN 404
  ELSE IF session[1].is_completed THEN 400
  ELSE IF BagIn(module_name, completed) THEN 400
  ELSE 200

\* the seconds start_module writes into content["time_limit"]: config is the
\* row of AdminSettings with is_active set, or None
time_limit(config, module_name) ==
  IF config = None THEN 1200
  ELSE CASE module_name = "reading" -> config[1].reading_time_limit
         [] module_name = "listening" -> config[1].listening_time_limit
         [] module_name = "writing" -> config[1].writing_time_limit
         [] module_name = "speaking" -> config[1].speaking_time_limit
         [] OTHER -> 1200

\* POST /test/module/start; content_generated tells whether generate_content
\* returned a non-empty dict
start_module(user, session_id, module_name) ==
  /\ UNCHANGED <<test_sessions, module_scores, now, inflight, rest>>
  /\ LET session == repository_get_session(test_sessions, session_id)
         completed == get_completed_modules(module_scores, session_id)
         status == start_module_status(session, user, completed, module_name)
     IN IF status # 200 THEN Respond("start_module", status, 0)
        ELSE \E content_generated \in BOOLEAN :
               IF ~content_generated THEN Respond("start_module", 500, 0)
               ELSE response' = [op |-> "start_module", status |-> 200,
                                 session_id |-> session_id, detail |-> "",
                                 module_name |-> module_name,
                                 time_limit |-> time_limit(admin_settings, module_name)]

\* from get_completed_modules to the return: count the completed modules
\* and, with 4 or more of them, save the final result
finish_module(op, user, session_id, scores1, env) ==
  LET completed == get_completed_modules(scores1, session_id)
      is_test_completed == BagCardinality(completed) >= 4
  IN IF is_test_completed
     THEN \E scores_dict \in get_scores(test_sessions, scores1, user, session_id, env.faults) :
            LET all_scores == ScoreValues(scores_dict)
            IN IF all_scores = <<>>
               THEN \* ZeroDivisionError
                    Respond(op, 500, 0) /\ UNCHANGED <<test_sessions, now>>
               ELSE \E final_committed \in StorageOutcomes(env.faults) :
                      /\ final_committed => now <= MaxClock
                      /\ test_sessions' =
                           IF final_committed
                           THEN save_final_result(test_sessions, session_id,
                                                  Mean(all_scores),
                                                  calculate_overall_cefr(all_scores), now)
                           ELSE test_sessions
                      /\ now' = IF final_committed THEN now + 1 ELSE now
                      /\ Respond(op, 200, session_id)
     ELSE Respond(op, 200, session_id) /\ UNCHANGED <<test_sessions, now>>

\* the part submit_module and upload_speaking share: save the score, count
\* the completed modules and, with 4 or more of them, save the final result
score_module(op, user, session_id, module, score, env) ==
  \E score_committed \in StorageOutcomes(env.faults) :
    LET cefr_level == calculate_overall_cefr(<<score>>)
        scores1 == IF score_committed
                   THEN save_score(module_scores, session_id, module, score, cefr_level)
                   ELSE module_scores
    IN /\ score_committed => BagCardinality(module_scores) < env.max_scores
       /\ module_scores' = scores1
       /\ finish_module(op, user, session_id, scores1, env)

\* POST /test/module/submit
submit_module(user, session_id, module_name, env) ==
  /\ UNCHANGED <<inflight, rest>>
  /\ LET session == repository_get_session(test_sessions, session_id)
     IN IF NotFoundOrForeign(session, user)
        THEN Respond("submit_module", 404, 0) /\ UNCHANGED <<test_sessions, module_scores, now>>
        ELSE IF module_name \in {"reading", "listening"}
        THEN \E payload \in env.payloads :
               score_module("submit_module", user, session_id, module_name,
                            evaluate_response([type |-> capitalize(module_name),
                                               user_answers |-> payload.user_answers,
                                               correct_answers |-> payload.correct_answers,
                                               weights |-> payload.weights],
                                              Text),
                            env)
        ELSE \E reply \in env.replies :
               score_module("submit_module", user, session_id, module_name,
                            evaluate_response([type |-> capitalize(module_name)], reply),
                            env)

\* what the speech-to-text provider does with the audio: it answers with
\* text (words, or blanks only) or the call raises
Heard(text) == [kind |-> "text", value |-> text]

SttFails == [kind |-> "raises", value |-> ""]

SttOutcomes == {Heard("hello"), Heard(" "), SttFails}

\* SpeechToTextService.transcribe: response.text.strip(), "" on an exception
transcribe(outcome) ==
  IF outcome.kind = "raises" THEN "" ELSE strip(outcome.value)

\* upload_speaking without the check of the transcript
upload_speaking_reject_unheard(session, user, audio_data, transcript) ==
  IF NotFoundOrForeign(session, user) THEN "Test session not found"
  ELSE IF ~audio_data THEN "Audio file is empty."
  ELSE ""

\* the detail of the HTTPException upload_speaking raises before it
\* evaluates ("Test session not found" for its Turkish text), "" if it
\* raises none; audio_data tells whether the upload has bytes
upload_speaking_reject(session, user, audio_data, transcript) ==
  IF NotFoundOrForeign(session, user) THEN "Test session not found"
  ELSE IF ~audio_data THEN "Audio file is empty."
  ELSE IF transcript = "" THEN "Audio could not be recognized. Please try again."
  ELSE ""

\* upload_speaking for an upload and an outcome of the transcription
upload_speaking_of(user, session_id, audio_data, heard, env) ==
  /\ UNCHANGED <<inflight, rest>>
  /\ LET session == repository_get_session(test_sessions, session_id)
         transcript == transcribe(heard)
         detail == upload_speaking_reject(session, user, audio_data, transcript)
     IN IF detail = "Test session not found"
        THEN Respond("upload_speaking", 404, 0)
             /\ UNCHANGED <<test_sessions, module_scores, now>>
        ELSE IF detail # ""
        THEN Reject("upload_speaking", 400, detail)
             /\ UNCHANGED <<test_sessions, module_scores, now>>
        ELSE \E reply \in env.replies :
               score_module("upload_speaking", user, session_id, "speaking",
                            evaluate_response([type |-> "Speaking"], reply),
                            env)

\* POST /test/module/speaking/upload
upload_speaking(user, session_id, env) ==
  \E audio_data \in BOOLEAN, heard \in SttOutcomes :
    upload_speaking_of(user, session_id, audio_data, heard, env)

\* GET /test/result/{session_id}
get_result(user, session_id) ==
  /\ UNCHANGED <<test_sessions, module_scores, now, inflight, rest>>
  /\ LET session == repository_get_session(test_sessions, session_id)
     IN IF NotFoundOrForeign(session, user) THEN Respond("get_result", 404, 0)
        ELSE IF ~session[1].is_completed THEN Respond("get_result", 400, 0)
        ELSE Respond("get_result", 200, session_id)

\* GET /test/history
get_history(user) ==
  /\ UNCHANGED <<test_sessions, module_scores, now, inflight, rest>>
  /\ Respond("get_history", 200, 0)

(***************************************************************************)
(* Accounts: app/models/user.py, app/core/security.py                      *)
(***************************************************************************)
\* the address of the i-th person who may hold an account
Address(i) == <<"user", i>>

Emails == {Address(i) : i \in Users}

Passwords == {"p", "q"}

\* generate_otp: a number of six digits
Codes == {100000 + i : i \in 1..MaxCodes}

\* bcrypt, without its salt: the hash tells the passwords apart
hash_password(password) == <<"bcrypt", password>>

verify_password(plain_password, hashed_password) ==
  hash_password(plain_password) = hashed_password

\* a row of the table users; full_name is left out, no decision reads it
User(id, email, password, role, account_status) ==
  [id |-> id, email |-> email, password_hash |-> hash_password(password),
   role |-> role, account_status |-> account_status]

\* select(User).where(User.email == email): scalar_one_or_none
user_by_email(table, email) ==
  LET found == SelectSeq(table, LAMBDA u : u.email = email)
  IN IF found = <<>> THEN None ELSE Some(found[1])

\* select(User).where(User.id == id): scalar_one_or_none
user_by_id(table, id) ==
  LET found == SelectSeq(table, LAMBDA u : u.id = id)
  IN IF found = <<>> THEN None ELSE Some(found[1])

\* the token carries the id of its subject; its role claim is never read
create_access_token(sub) == [sub |-> sub]

\* what a caller may present as a bearer token
TokenValues == [sub : Users]

\* the signature holds for the tokens this server issued and for no other
verify_token(issued, token) ==
  IF token \in issued THEN Some(token) ELSE None

\* the dependency without the check of the account status
get_current_user_any_status(table, issued, token) ==
  LET payload == verify_token(issued, token)
  IN IF payload = None
     THEN [status |-> 401, detail |-> "Invalid token.", user |-> None]
     ELSE LET user == user_by_id(table, payload[1].sub)
          IN IF user = None
             THEN [status |-> 401, detail |-> "User not found.", user |-> None]
             ELSE [status |-> 200, detail |-> "", user |-> user]

\* get_current_user: the user of the token, or the HTTPException raised
get_current_user(table, issued, token) ==
  LET payload == verify_token(issued, token)
  IN IF payload = None
     THEN [status |-> 401, detail |-> "Invalid token.", user |-> None]
     ELSE LET user == user_by_id(table, payload[1].sub)
          IN IF user = None
             THEN [status |-> 401, detail |-> "User not found.", user |-> None]
             ELSE IF user[1].account_status # "Active"
             THEN [status |-> 403, detail |-> "Account status", user |-> None]
             ELSE [status |-> 200, detail |-> "", user |-> user]

\* a handler that declares current_user: CurrentUser does not run when the
\* dependency raised
Unauthorized(op, current) ==
  Reject(op, current.status, current.detail) /\ UNCHANGED <<tests, accounts>>

(***************************************************************************)
(* The cache of verification codes: r in app/routers/auth.py               *)
(***************************************************************************)
EmptyStore == [name \in {} |-> 0]

setex(store, name, value) ==
  [k \in DOMAIN store \cup {name} |-> IF k = name THEN value ELSE store[k]]

\* a get that reads a missing key as the first code
get_default(store, name) ==
  IF name \in DOMAIN store THEN Some(store[name])
  ELSE Some(CHOOSE code \in Codes : TRUE)

get(store, name) ==
  IF name \in DOMAIN store THEN Some(store[name]) ELSE None

\* a delete that leaves the key in place
delete_nothing(store, name) == store

delete(store, name) ==
  [k \in DOMAIN store \ {name} |-> store[k]]

\* request_otp: r.setex(name=f"otp:{email}", time=600, ...), in seconds
OtpTtl == 600

\* forgot_password: r.setex(name=f"reset:{data.email}", time=300, ...)
ResetTtl == 300

\* f"otp:{email}" and f"reset:{email}"
Key(prefix, email) == <<prefix, email>>

\* the mail a background task sends
Mail(to, kind, code) == Some([to |-> to, kind |-> kind, code |-> code])

\* TickSeconds pass. The Redis server drops every key whose time has come;
\* FakeRedis.setex threw the time away and drops nothing.
elapse ==
  /\ now + TickSeconds <= MaxSeconds
  /\ now' = now + TickSeconds
  /\ redis' = IF cache = "redis"
              THEN [k \in {n \in DOMAIN redis : expiry[n] > now'} |-> redis[k]]
              ELSE redis
  /\ UNCHANGED <<test_sessions, module_scores, response, inflight, call,
                 users, tokens, outbox, admin_settings, cache, expiry>>

(***************************************************************************)
(* Handlers of the auth router: app/routers/auth.py                        *)
(***************************************************************************)
\* POST /auth/request-otp
request_otp(email, env) ==
  /\ UNCHANGED <<tests, users, tokens, admin_settings, cache>>
  /\ IF user_by_email(users, email) # None
     THEN Reject("request_otp", 400, "Email address is already registered.")
          /\ UNCHANGED <<redis, expiry, outbox>>
     ELSE \E otp_code \in Codes, stored \in StorageOutcomes(env.faults) :
            IF stored
            THEN /\ redis' = setex(redis, Key("otp", email), otp_code)
                 /\ expiry' = setex(expiry, Key("otp", email), now + OtpTtl)
                 /\ outbox' = Mail(email, "otp", otp_code)
                 /\ Respond("request_otp", 200, 0)
            ELSE Reject("request_otp", 500, "Cache service error.")
                 /\ UNCHANGED <<redis, expiry, outbox>>

\* POST /auth/verify-otp
verify_otp(email, code) ==
  /\ UNCHANGED <<tests, accounts>>
  /\ LET stored_code == get(redis, Key("otp", email))
     IN IF stored_code = None
        THEN Reject("verify_otp", 400, "Code is invalid or has expired.")
        ELSE IF stored_code[1] # code
        THEN Reject("verify_otp", 400, "Invalid code entered.")
        ELSE Respond("verify_otp", 200, 0)

\* POST /auth/register
register(email, password, otp_code, env) ==
  /\ UNCHANGED <<tests, outbox, admin_settings, cache>>
  /\ LET stored_code == get(redis, Key("otp", email))
     IN IF stored_code = None \/ stored_code[1] # otp_code
        THEN Reject("register", 400, "Verification failed. Invalid code or timeout.")
             /\ UNCHANGED <<users, tokens, redis, expiry>>
        ELSE IF user_by_email(users, email) # None
        \* users.email is unique: the commit raises
        THEN Respond("register", 500, 0) /\ UNCHANGED <<users, tokens, redis, expiry>>
        ELSE LET id == Len(users) + 1
             IN /\ users' = Append(users, User(id, email, password, "Student", "Active"))
                /\ \E deleted \in StorageOutcomes(env.faults) :
                     IF deleted
                     THEN /\ redis' = delete(redis, Key("otp", email))
                          /\ expiry' = delete(expiry, Key("otp", email))
                          /\ tokens' = tokens \cup {create_access_token(id)}
                          /\ Respond("register", 201, 0)
                     ELSE Respond("register", 500, 0) /\ UNCHANGED <<tokens, redis, expiry>>

\* POST /auth/forgot-password
forgot_password(email, env) ==
  /\ UNCHANGED <<tests, users, tokens, admin_settings, cache>>
  /\ IF user_by_email(users, email) = None
     THEN Reject("forgot_password", 404, "User not found.")
          /\ UNCHANGED <<redis, expiry, outbox>>
     ELSE \E otp_code \in Codes, stored \in StorageOutcomes(env.faults) :
            IF stored
            THEN /\ redis' = setex(redis, Key("reset", email), otp_code)
                 /\ expiry' = setex(expiry, Key("reset", email), now + ResetTtl)
                 /\ outbox' = Mail(email, "reset", otp_code)
                 /\ Respond("forgot_password", 200, 0)
            ELSE Reject("forgot_password", 500, "Redis error.")
                 /\ UNCHANGED <<redis, expiry, outbox>>

\* POST /auth/reset-password
reset_password(email, code, new_password, env) ==
  /\ UNCHANGED <<tests, tokens, outbox, admin_settings, cache>>
  /\ LET stored_code == get(redis, Key("reset", email))
         user == user_by_email(users, email)
     IN IF stored_code = None
        THEN Reject("reset_password", 400, "Code expired or server restarted.")
             /\ UNCHANGED <<users, redis, expiry>>
        ELSE IF stored_code[1] # code
        THEN Reject("reset_password", 400, "Invalid code entered.")
             /\ UNCHANGED <<users, redis, expiry>>
        ELSE IF user = None
        THEN Reject("reset_password", 404, "User not found.")
             /\ UNCHANGED <<users, redis, expiry>>
        ELSE /\ users' = [i \in 1..Len(users) |->
                            IF users[i].email = email
                            THEN [users[i] EXCEPT !.password_hash = hash_password(new_password)]
                            ELSE users[i]]
             /\ \E deleted \in StorageOutcomes(env.faults) :
                  IF deleted
                  THEN /\ redis' = delete(redis, Key("reset", email))
                       /\ expiry' = delete(expiry, Key("reset", email))
                       /\ Respond("reset_password", 200, 0)
                  ELSE Respond("reset_password", 500, 0) /\ UNCHANGED <<redis, expiry>>

\* POST /auth/login
login(email, password) ==
  /\ UNCHANGED <<tests, users, redis, expiry, outbox, admin_settings, cache>>
  /\ LET user == user_by_email(users, email)
     IN IF user = None \/ ~verify_password(password, user[1].password_hash)
        THEN Reject("login", 401, "Invalid email or password.") /\ UNCHANGED tokens
        ELSE /\ tokens' = tokens \cup {create_access_token(user[1].id)}
             /\ Respond("login", 200, 0)

\* GET /auth/me
get_me(token) ==
  LET current == get_current_user(users, tokens, token)
      current_user == current.user[1]
  IN IF current.status # 200 THEN Unauthorized("get_me", current)
     ELSE Respond("get_me", 200, 0) /\ UNCHANGED <<tests, accounts>>

\* POST /auth/logout
logout(token) ==
  LET current == get_current_user(users, tokens, token)
      current_user == current.user[1]
  IN IF current.status # 200 THEN Unauthorized("logout", current)
     ELSE Respond("logout", 200, 0) /\ UNCHANGED <<tests, accounts>>

(***************************************************************************)
(* Handlers of the admin router: app/routers/admin.py                      *)
(***************************************************************************)
\* the check that lets every user pass
check_admin_privileges_of_anyone(user) == TRUE

\* FALSE: the HTTPException of status 403 is raised
check_admin_privileges(user) == user.role = "Admin"

Roles == {"Student", "Admin"}

AccountStatuses == {"Active", "Suspended"}

\* UserUpdateSchema without full_name
UserUpdates ==
  [role : {None} \cup {Some(r) : r \in Roles},
   account_status : {None} \cup {Some(s) : s \in AccountStatuses}]

\* the values get_test_config answers with when no row is active
DefaultConfig ==
  [reading_time_limit |-> 1200, listening_time_limit |-> 840,
   writing_time_limit |-> 2400, speaking_time_limit |-> 180, difficulty |-> "B1"]

\* ConfigUpdateSchema
ConfigUpdates ==
  {[reading_time_limit |-> 600, listening_time_limit |-> 420,
    writing_time_limit |-> 1200, speaking_time_limit |-> 90, difficulty |-> "B2"]}

\* GET /admin/stats
get_admin_stats(token) ==
  LET current == get_current_user(users, tokens, token)
      current_user == current.user[1]
  IN IF current.status # 200 THEN Unauthorized("get_admin_stats", current)
     ELSE /\ UNCHANGED <<tests, accounts>>
          /\ IF ~check_admin_privileges(current_user)
             THEN Reject("get_admin_stats", 403, "Admin privileges required.")
             ELSE Respond("get_admin_stats", 200, 0)

\* GET /admin/users
get_all_users(token) ==
  LET current == get_current_user(users, tokens, token)
      current_user == current.user[1]
  IN IF current.status # 200 THEN Unauthorized("get_all_users", current)
     ELSE /\ UNCHANGED <<tests, accounts>>
          /\ IF ~check_admin_privileges(current_user)
             THEN Reject("get_all_users", 403, "Admin privileges required.")
             ELSE Respond("get_all_users", 200, 0)

\* POST /admin/users: User has no method set_password, the call raises
\* before the row is added
admin_create_user(token, email) ==
  LET current == get_current_user(users, tokens, token)
      current_user == current.user[1]
  IN IF current.status # 200 THEN Unauthorized("admin_create_user", current)
     ELSE /\ UNCHANGED <<tests, accounts>>
          /\ IF ~check_admin_privileges(current_user)
             THEN Reject("admin_create_user", 403, "Admin privileges required.")
             ELSE IF user_by_email(users, email) # None
             THEN Reject("admin_create_user", 400, "Email already registered")
             ELSE Respond("admin_create_user", 500, 0)

\* PUT /admin/users/{user_id}
admin_update_user(token, user_id, data) ==
  LET current == get_current_user(users, tokens, token)
      current_user == current.user[1]
  IN IF current.status # 200 THEN Unauthorized("admin_update_user", current)
     ELSE /\ UNCHANGED <<tests, tokens, redis, expiry, outbox, admin_settings, cache>>
          /\ IF ~check_admin_privileges(current_user)
             THEN Reject("admin_update_user", 403, "Admin privileges required.")
                  /\ UNCHANGED users
             ELSE IF user_by_id(users, user_id) = None
             THEN Reject("admin_update_user", 404, "User not found") /\ UNCHANGED users
             ELSE /\ users' = [i \in 1..Len(users) |->
                                 IF users[i].id = user_id
                                 THEN [users[i] EXCEPT
                                         !.role = IF data.role # None
                                                  THEN data.role[1] ELSE @,
                                         !.account_status = IF data.account_status # None
                                                            THEN data.account_status[1] ELSE @]
                                 ELSE users[i]]
                  /\ Respond("admin_update_user", 200, 0)

\* GET /admin/config
get_test_config(token) ==
  LET current == get_current_user(users, tokens, token)
      current_user == current.user[1]
  IN IF current.status # 200 THEN Unauthorized("get_test_config", current)
     ELSE /\ UNCHANGED <<tests, accounts>>
          /\ IF ~check_admin_privileges(current_user)
             THEN Reject("get_test_config", 403, "Admin privileges required.")
             ELSE Respond("get_test_config", 200, 0)

\* PUT /admin/config
update_test_config(token, data) ==
  LET current == get_current_user(users, tokens, token)
      current_user == current.user[1]
  IN IF current.status # 200 THEN Unauthorized("update_test_config", current)
     ELSE /\ UNCHANGED <<tests, users, tokens, redis, expiry, outbox, cache>>
          /\ IF ~check_admin_privileges(current_user)
             THEN Reject("update_test_config", 403, "Admin privileges required.")
                  /\ UNCHANGED admin_settings
             ELSE IF admin_settings # None
             THEN admin_settings' = Some(data) /\ Respond("update_test_config", 200, 0)
             ELSE Reject("update_test_config", 404, "Settings record not found.")
                  /\ UNCHANGED admin_settings

(***************************************************************************)
(* The handlers of the test router behind their dependency                 *)
(***************************************************************************)
start_test_request(token, env) ==
  LET current == get_current_user(users, tokens, token)
      current_user == current.user[1]
  IN IF current.status # 200 THEN Unauthorized("start_test", current)
     ELSE start_test(current_user.id, env)

get_session_request(token, session_id) ==
  LET current == get_current_user(users, tokens, token)
      current_user == current.user[1]
  IN IF current.status # 200 THEN Unauthorized("get_session", current)
     ELSE get_session(current_user.id, session_id)

get_progress_request(token, session_id) ==
  LET current == get_current_user(users, tokens, token)
      current_user == current.user[1]
  IN IF current.status # 200 THEN Unauthorized("get_progress", current)
     ELSE get_progress(current_user.id, session_id)

start_module_request(token, session_id, module_name) ==
  LET current == get_current_user(users, tokens, token)
      current_user == current.user[1]
  IN IF current.status # 200 THEN Unauthorized("start_module", current)
     ELSE start_module(current_user.id, session_id, module_name)

submit_module_request(token, session_id, module_name, env) ==
  LET current == get_current_user(users, tokens, token)
      current_user == current.user[1]
  IN IF current.status # 200 THEN Unauthorized("submit_module", current)
     ELSE submit_module(current_user.id, session_id, module_name, env)

upload_speaking_request(token, session_id, env) ==
  LET current == get_current_user(users, tokens, token)
      current_user == current.user[1]
  IN IF current.status # 200 THEN Unauthorized("upload_speaking", current)
     ELSE upload_speaking(current_user.id, session_id, env)

get_result_request(token, session_id) ==
  LET current == get_current_user(users, tokens, token)
      current_user == current.user[1]
  IN IF current.status # 200 THEN Unauthorized("get_result", current)
     ELSE get_result(current_user.id, session_id)

get_history_request(token) ==
  LET current == get_current_user(users, tokens, token)
      current_user == current.user[1]
  IN IF current.status # 200 THEN Unauthorized("get_history", current)
     ELSE get_history(current_user.id)

(***************************************************************************)
(* The requests handled one at a time                                      *)
(***************************************************************************)
Slots == 1..MaxInFlight

NoCall == [fn |-> "none"]

NoResponse == [op |-> "none", status |-> 0, session_id |-> 0, detail |-> ""]

Idle == [op |-> "idle", user |-> 0, active |-> [raised |-> FALSE, row |-> None]]

Init ==
  /\ test_sessions = <<>>
  /\ module_scores = EmptyBag
  /\ now = 1
  /\ response = NoResponse
  /\ inflight = [r \in Slots |-> Idle]
  /\ call = NoCall
  /\ users = [i \in Users |-> User(i, Address(i), "p", "Student", "Active")]
  /\ tokens = {}
  /\ redis = EmptyStore
  /\ outbox = None
  /\ cache = "redis"
  /\ expiry = EmptyStore
  /\ admin_settings = None

Handlers(env) ==
  \/ \E u \in Users : start_test(u, env)
  \/ \E u \in Users, sid \in SessionIds : get_session(u, sid)
  \/ \E u \in Users, sid \in SessionIds : get_progress(u, sid)
  \/ \E u \in Users, sid \in SessionIds, m \in ModuleName : start_module(u, sid, m)
  \/ \E u \in Users, sid \in SessionIds, m \in ModuleName : submit_module(u, sid, m, env)
  \/ \E u \in Users, sid \in SessionIds : upload_speaking(u, sid, env)
  \/ \E u \in Users, sid \in SessionIds : get_result(u, sid)
  \/ \E u \in Users : get_history(u)

Next == Handlers(PlainEnv)

Spec == Init /\ [][Next]_vars

\* the same with storage faults
NextFaults == Handlers(FaultEnv)

SpecFaults == Init /\ [][NextFaults]_vars

\* the requests that write, with the wider bodies and replies
NextScores ==
  \/ \E u \in Users : start_test(u, ScoreEnv)
  \/ \E u \in Users, sid \in SessionIds, m \in ModuleName : submit_module(u, sid, m, ScoreEnv)
  \/ \E u \in Users, sid \in SessionIds : upload_speaking(u, sid, ScoreEnv)

SpecScores == Init /\ [][NextScores]_vars

(***************************************************************************)
(* start_test suspended at its awaits: a request reads the active session, *)
(* is suspended, and creates or resumes when it runs on.  Other requests   *)
(* run in between.                                                         *)
(***************************************************************************)
\* up to "active_session = await test_repository.get_active_session(..)"
start_test_query(r, user) ==
  /\ inflight[r] = Idle
  /\ inflight' = [inflight EXCEPT ![r] =
                    [op |-> "start_test", user |-> user,
                     active |-> get_active_session(test_sessions, user)]]
  /\ UNCHANGED <<test_sessions, module_scores, now, response, rest>>

\* from there to the return
start_test_resume(r) ==
  /\ inflight[r].op = "start_test"
  /\ start_test_respond(inflight[r].active, inflight[r].user, PlainEnv)
  /\ inflight' = [inflight EXCEPT ![r] = Idle]
  /\ UNCHANGED <<module_scores, rest>>

NextConc ==
  \/ \E r \in Slots, u \in Users : start_test_query(r, u)
  \/ \E r \in Slots : start_test_resume(r)
  \/ \E u \in Users, sid \in SessionIds, m \in ModuleName : submit_module(u, sid, m, PlainEnv)

SpecConc == Init /\ [][NextConc]_vars

(***************************************************************************)
(* submit_module interleaved: a request gives way at each await            *)
(***************************************************************************)
\* a submission that passed the check of the session and waits, at stage
\* "evaluating" for ai_service.evaluate_response, at stage "scored" (after
\* save_score returned) for get_completed_modules
Submitting(user, session_id, module_name, stage) ==
  [op |-> "submit_module", user |-> user, session_id |-> session_id,
   module_name |-> module_name, stage |-> stage]

\* one provider answers with a number, the other raises
SubmitEnv ==
  [PlainEnv EXCEPT !.replies = {Number(85 * Point), Raises},
                   !.max_sessions = MaxAuthSessions]

\* from the call of the handler to the await of evaluate_response
submit_module_begin(r, user, session_id, module_name) ==
  /\ inflight[r] = Idle
  /\ LET session == repository_get_session(test_sessions, session_id)
     IN IF NotFoundOrForeign(session, user)
        THEN Respond("submit_module", 404, 0) /\ UNCHANGED inflight
        ELSE /\ inflight' = [inflight EXCEPT ![r] =
                               Submitting(user, session_id, module_name, "evaluating")]
             /\ UNCHANGED response
  /\ UNCHANGED <<test_sessions, module_scores, now, rest>>

\* evaluate_response returned: from there through save_score, which commits
\* its row in a transaction of its own
submit_module_score(r, payload, reply, env) ==
  /\ inflight[r].op = "submit_module"
  /\ inflight[r].stage = "evaluating"
  /\ LET module_name == inflight[r].module_name
         data == IF module_name \in {"reading", "listening"}
                 THEN [type |-> capitalize(module_name),
                       user_answers |-> payload.user_answers,
                       correct_answers |-> payload.correct_answers,
                       weights |-> payload.weights]
                 ELSE [type |-> capitalize(module_name)]
         score == evaluate_response(data, IF module_name \in {"reading", "listening"}
                                          THEN Text ELSE reply)
         cefr_level == calculate_overall_cefr(<<score>>)
     IN \E score_committed \in StorageOutcomes(env.faults) :
          /\ score_committed => BagCardinality(module_scores) < env.max_scores
          /\ module_scores' =
               IF score_committed
               THEN save_score(module_scores, inflight[r].session_id, module_name,
                               score, cefr_level)
               ELSE module_scores
  /\ inflight' = [inflight EXCEPT ![r].stage = "scored"]
  /\ UNCHANGED <<test_sessions, now, response, rest>>

\* from get_completed_modules to the return
submit_module_finish(r, env) ==
  /\ inflight[r].op = "submit_module"
  /\ inflight[r].stage = "scored"
  /\ finish_module("submit_module", inflight[r].user, inflight[r].session_id,
                   module_scores, env)
  /\ inflight' = [inflight EXCEPT ![r] = Idle]
  /\ UNCHANGED <<module_scores, rest>>

\* the request stops at the await it is suspended at: its task is cancelled
\* or the worker goes down. What it committed stays.
stop(r) ==
  /\ inflight[r] # Idle
  /\ inflight' = [inflight EXCEPT ![r] = Idle]
  /\ UNCHANGED <<test_sessions, module_scores, now, response, rest>>

NextSubmit ==
  \/ \E u \in Users : start_test(u, SubmitEnv)
  \/ \E r \in Slots, u \in Users, sid \in SessionIds, m \in ModuleName :
       submit_module_begin(r, u, sid, m)
  \/ \E r \in Slots, payload \in SubmitEnv.payloads, reply \in SubmitEnv.replies :
       submit_module_score(r, payload, reply, SubmitEnv)
  \/ \E r \in Slots : submit_module_finish(r, SubmitEnv)
  \/ \E r \in Slots : stop(r)

SpecSubmit == Init /\ [][NextSubmit]_vars

\* the first student's session after three submissions answered with 200:
\* reading, listening and writing are scored, speaking is left
InitThreeScored ==
  LET score(module_name) ==
        IF module_name \in {"reading", "listening"}
        THEN evaluate_response([type |-> capitalize(module_name),
                                user_answers |-> ExamplePayload.user_answers,
                                correct_answers |-> ExamplePayload.correct_answers,
                                weights |-> ExamplePayload.weights],
                               Text)
        ELSE evaluate_response([type |-> capitalize(module_name)], Number(85 * Point))
      scored(scores, module_name) ==
        save_score(scores, 1, module_name, score(module_name),
                   calculate_overall_cefr(<<score(module_name)>>))
  IN /\ test_sessions = create_session(<<>>, 1, 1)
     /\ module_scores = scored(scored(scored(EmptyBag, "reading"), "listening"), "writing")
     /\ now = 2
     /\ response = [op |-> "submit_module", status |-> 200, session_id |-> 1, detail |-> ""]
     /\ inflight = [r \in Slots |-> Idle]
     /\ call = NoCall
     /\ users = [i \in Users |-> User(i, Address(i), "p", "Student", "Active")]
     /\ tokens = {}
     /\ redis = EmptyStore
     /\ outbox = None
     /\ cache = "redis"
     /\ expiry = EmptyStore
     /\ admin_settings = None

\* the event loop resumes every coroutine whose await has returned: a
\* request that is suspended and not stopped takes its next step. Nothing
\* makes a client send a request, and nothing keeps a request from being
\* stopped.
SpecSubmitFair ==
  /\ InitThreeScored
  /\ [][NextSubmit]_vars
  /\ \A r \in Slots :
       /\ WF_vars(\E payload \in SubmitEnv.payloads, reply \in SubmitEnv.replies :
                    submit_module_score(r, payload, reply, SubmitEnv))
       /\ WF_vars(submit_module_finish(r, SubmitEnv))

(***************************************************************************)
(* The three routers behind the bearer token                               *)
(***************************************************************************)
\* a single session and a single score keep the part of the tests small
AuthEnv ==
  [PlainEnv EXCEPT !.max_sessions = MaxAuthSessions, !.max_scores = MaxAuthScores]

\* main.py creates the tables and seeds nothing: the first administrator
\* and the active configuration come from SQL run by hand. A code is
\* waiting for the second address.
InitAuth ==
  /\ test_sessions = <<>>
  /\ module_scores = EmptyBag
  /\ now = 1
  /\ response = NoResponse
  /\ inflight = [r \in Slots |-> Idle]
  /\ call = NoCall
  /\ users = <<User(1, Address(1), "p", "Admin", "Active")>>
  /\ tokens = {}
  /\ redis = setex(EmptyStore, Key("otp", Address(2)), 100001)
  /\ outbox = Mail(Address(2), "otp", 100001)
  /\ cache = "redis"
  /\ expiry = setex(EmptyStore, Key("otp", Address(2)), 1 + OtpTtl)
  /\ admin_settings \in {None, Some(DefaultConfig)}

NextAuth ==
  \/ \E email \in Emails, password \in Passwords : login(email, password)
  \/ \E email \in Emails, code \in Codes : register(email, "p", code, AuthEnv)
  \/ \E token \in TokenValues : get_me(token)
  \/ \E token \in TokenValues : logout(token)
  \/ \E token \in TokenValues : get_admin_stats(token)
  \/ \E token \in TokenValues : get_all_users(token)
  \/ \E token \in TokenValues, email \in Emails : admin_create_user(token, email)
  \/ \E token \in TokenValues, user_id \in Users, data \in UserUpdates :
       admin_update_user(token, user_id, data)
  \/ \E token \in TokenValues : get_test_config(token)
  \/ \E token \in TokenValues, data \in ConfigUpdates : update_test_config(token, data)
  \/ \E token \in TokenValues : start_test_request(token, AuthEnv)
  \/ \E token \in TokenValues, sid \in SessionIds : get_session_request(token, sid)
  \/ \E token \in TokenValues, sid \in SessionIds : get_progress_request(token, sid)
  \/ \E token \in TokenValues, sid \in SessionIds, m \in ModuleName :
       start_module_request(token, sid, m)
  \/ \E token \in TokenValues, sid \in SessionIds, m \in ModuleName :
       submit_module_request(token, sid, m, AuthEnv)
  \/ \E token \in TokenValues, sid \in SessionIds :
       upload_speaking_request(token, sid, AuthEnv)
  \/ \E token \in TokenValues, sid \in SessionIds : get_result_request(token, sid)
  \/ \E token \in TokenValues : get_history_request(token)

SpecAuth == InitAuth /\ [][NextAuth]_vars

(***************************************************************************)
(* Registration and password reset, the cache may fail                     *)
(***************************************************************************)
InitOtp ==
  /\ test_sessions = <<>>
  /\ module_scores = EmptyBag
  /\ now = 1
  /\ response = NoResponse
  /\ inflight = [r \in Slots |-> Idle]
  /\ call = NoCall
  /\ users = <<>>
  /\ tokens = {}
  /\ redis = EmptyStore
  /\ outbox = None
  /\ cache = "redis"
  /\ expiry = EmptyStore
  /\ admin_settings = None

NextOtp ==
  \/ \E email \in Emails : request_otp(email, FaultEnv)
  \/ \E email \in Emails, code \in Codes : verify_otp(email, code)
  \/ \E email \in Emails, password \in Passwords, code \in Codes :
       register(email, password, code, FaultEnv)
  \/ \E email \in Emails : forgot_password(email, FaultEnv)
  \/ \E email \in Emails, code \in Codes, password \in Passwords :
       reset_password(email, code, password, FaultEnv)

SpecOtp == InitOtp /\ [][NextOtp]_vars

(***************************************************************************)
(* The same flow while time passes, with either store                      *)
(***************************************************************************)
\* r is the Redis server when it answers the ping at import, else FakeRedis
InitTtl ==
  /\ test_sessions = <<>>
  /\ module_scores = EmptyBag
  /\ now = 1
  /\ response = NoResponse
  /\ inflight = [r \in Slots |-> Idle]
  /\ call = NoCall
  /\ users = <<>>
  /\ tokens = {}
  /\ redis = EmptyStore
  /\ outbox = None
  /\ admin_settings = None
  /\ cache \in {"redis", "fake"}
  /\ expiry = EmptyStore

NextTtl ==
  \/ \E email \in Emails : request_otp(email, PlainEnv)
  \/ \E email \in Emails, code \in Codes : verify_otp(email, code)
  \/ \E email \in Emails, password \in Passwords, code \in Codes :
       register(email, password, code, PlainEnv)
  \/ \E email \in Emails : forgot_password(email, PlainEnv)
  \/ \E email \in Emails, code \in Codes, password \in Passwords :
       reset_password(email, code, password, PlainEnv)
  \/ elapse

SpecTtl == InitTtl /\ [][NextTtl]_vars

(***************************************************************************)
(* The functions of the services called on their own: a call starts with   *)
(* its arguments and no result, and its step computes the result.          *)
(***************************************************************************)
AnswerTexts == {"a", "A", " a", "b"}

WeightValues == -1..2

ListsOf(S) == UNION {[1..n -> S] : n \in 0..MaxAnswers}

OptionalListsOf(S) == {None} \cup {Some(l) : l \in ListsOf(S)}

\* the data of an objective evaluation and of a subjective one
ObjectiveData ==
  [type : {"Reading", "Listening"},
   user_answers : OptionalListsOf(AnswerTexts),
   correct_answers : OptionalListsOf(AnswerTexts),
   weights : OptionalListsOf(WeightValues)]

SubjectiveData == [type : {"Writing", "Speaking", "Unknown"}]

\* scores around the thresholds of calculate_overall_cefr, in hundredths
BoundaryScores ==
  {0, 3499, 3500, 4990, 5000, 6499, 6500, 7999, 8000, 8990, 9000, 100 * Point}

ScoreLists == UNION {[1..n -> BoundaryScores] : n \in 0..MaxScoreList}

\* the lists of names a caller may pass as completed: module names, with
\* repetitions, and a name that is no module
NameLists == UNION {[1..n -> ModuleName \cup {"grammar"}] : n \in 0..MaxCompleted}

\* a Python list as the bag of its elements ("m not in completed" reads no more)
BagOf(list) ==
  [m \in {list[i] : i \in DOMAIN list} |-> Cardinality({i \in DOMAIN list : list[i] = m})]

ServiceCalls ==
  [fn : {"evaluate_response"}, data : ObjectiveData,
   reply : {Number(85 * Point), Unavailable}, result : {None}]
  \cup [fn : {"evaluate_response"}, data : SubjectiveData,
        reply : {Number(85 * Point), Number(150 * Point), Text, Raises, Unavailable},
        result : {None}]
  \cup [fn : {"calculate_overall_cefr"}, scores : ScoreLists, result : {None}]
  \cup [fn : {"get_remaining_modules", "get_next_module"}, completed : NameLists,
        result : {None}]
  \cup [fn : {"score_to_cefr"}, score : {s * Point : s \in 0..100}, result : {None}]

InitService ==
  /\ test_sessions = <<>>
  /\ module_scores = EmptyBag
  /\ now = 1
  /\ response = NoResponse
  /\ inflight = [r \in Slots |-> Idle]
  /\ call \in ServiceCalls
  /\ users = <<>>
  /\ tokens = {}
  /\ redis = EmptyStore
  /\ outbox = None
  /\ cache = "redis"
  /\ expiry = EmptyStore
  /\ admin_settings = None

evaluate_response_call ==
  /\ call.fn = "evaluate_response"
  /\ call.result = None
  /\ call' = [call EXCEPT !.result = Some(evaluate_response(call.data, call.reply))]
  /\ UNCHANGED <<test_sessions, module_scores, now, response, inflight, accounts>>

calculate_overall_cefr_call ==
  /\ call.fn = "calculate_overall_cefr"
  /\ call.result = None
  /\ call' = [call EXCEPT !.result = Some(calculate_overall_cefr(call.scores))]
  /\ UNCHANGED <<test_sessions, module_scores, now, response, inflight, accounts>>

get_remaining_modules_call ==
  /\ call.fn = "get_remaining_modules"
  /\ call.result = None
  /\ call' = [call EXCEPT !.result = Some(get_remaining_modules(BagOf(call.completed)))]
  /\ UNCHANGED <<test_sessions, module_scores, now, response, inflight, accounts>>

get_next_module_call ==
  /\ call.fn = "get_next_module"
  /\ call.result = None
  /\ call' = [call EXCEPT !.result = Some(get_next_module(BagOf(call.completed)))]
  /\ UNCHANGED <<test_sessions, module_scores, now, response, inflight, accounts>>

score_to_cefr_call ==
  /\ call.fn = "score_to_cefr"
  /\ call.result = None
  /\ call' = [call EXCEPT !.result = Some(score_to_cefr(call.score))]
  /\ UNCHANGED <<test_sessions, module_scores, now, response, inflight, accounts>>

NextService ==
  \/ score_to_cefr_call
  \/ evaluate_response_call
  \/ calculate_overall_cefr_call
  \/ get_remaining_modules_call
  \/ get_next_module_call

SpecService == InitService /\ [][NextService]_vars

(***************************************************************************)
(* State functions the properties are stated with                          *)
(***************************************************************************)
\* the number of ModuleScore rows of a session and a module name
RowCount(session_id, module) ==
  SumOver({r \in SessionRows(module_scores, session_id) : r.module_name = module},
          module_scores)

\* the module names with a ModuleScore in a session
ScoredModules(session_id) ==
  {r.module_name : r \in SessionRows(module_scores, session_id)}

\* the incomplete sessions of a user
IncompleteSessions(user) ==
  {i \in DOMAIN test_sessions :
     test_sessions[i].student_id = user /\ ~test_sessions[i].is_completed}

Owned(user, session_id) ==
  session_id \in DOMAIN test_sessions /\ test_sessions[session_id].student_id = user

InRange(score) == 0 <= score /\ score <= 100 * Point

C4_CompletionFieldsTogether ==
  \A i \in DOMAIN test_sessions :
    LET s == test_sessions[i]
    IN \/ /\ ~s.is_completed
          /\ s.overall_score = None
          /\ s.overall_cefr_level = None
          /\ s.completion_date = None
       \/ /\ s.is_completed
          /\ s.overall_score # None
          /\ s.overall_cefr_level # None
          /\ s.completion_date # None

C4_Witness ==
  \E i \in DOMAIN test_sessions :
    test_sessions[i].is_completed /\ ScoredModules(i) = ModuleName

(***************************************************************************)
(* C5: while a user has an incomplete session, start_test answers with     *)
(* that session and creates nothing; a start_test that follows a           *)
(* start_test of the same user answers with the same session id.  Checked  *)
(* with storage faults.                                                    *)
(***************************************************************************)
C5_StartResumes ==
  [][\A u \in Users :
       (start_test(u, FaultEnv) /\ IncompleteSessions(u) # {})
         => /\ test_sessions' = test_sessions
            /\ response'.status = 201
            /\ response'.session_id \in IncompleteSessions(u)
            /\ (response.op = "start_test" /\ response.status = 201
                /\ Owned(u, response.session_id))
                 => response'.session_id = response.session_id]_vars

\* a start_test has answered with a session that already has a ModuleScore
C5_Witness ==
  /\ response.op = "start_test"
  /\ response.status = 201
  /\ response.session_id \in DOMAIN test_sessions
  /\ ScoredModules(response.session_id) # {}

(***************************************************************************)
(* C6: under interleaved start_test requests a user has at most one        *)
(* incomplete session.  Two requests that both read "no active session"    *)
(* both create one, so this fails.                                         *)
(***************************************************************************)
C6_OneActiveSession ==
  \A u \in Users : Cardinality(IncompleteSessions(u)) <= 1

(***************************************************************************)
(* C7: start_module for a session that is completed, or for a module that  *)
(* has a ModuleScore in the session, fails (400 for the owner, 404 for     *)
(* another user), creates no ModuleScore and leaves the session unchanged. *)
(***************************************************************************)
C7_StartModuleRejects ==
  [][response'.op = "start_module"
       => \A u \in Users, sid \in SessionIds, m \in ModuleName :
            (/\ sid \in DOMAIN test_sessions
             /\ (test_sessions[sid].is_completed \/ m \in ScoredModules(sid)))
              => \/ /\ response'.status = IF Owned(u, sid) THEN 400 ELSE 404
                    /\ response'.session_id = 0
                    /\ module_scores' = module_scores
                    /\ test_sessions' = test_sessions
                 \/ ~start_module(u, sid, m)]_vars

\* start_module has answered 400 while no session is completed: the module
\* asked for has a ModuleScore
C7_Witness ==
  /\ response.op = "start_module"
  /\ response.status = 400
  /\ \A i \in DOMAIN test_sessions : ~test_sessions[i].is_completed
  /\ \E i \in DOMAIN test_sessions : ScoredModules(i) # {}

(***************************************************************************)
(* C8: each of get_session, get_progress, start_module, submit_module,     *)
(* upload_speaking and get_result, called for a session that does not      *)
(* exist or that another user owns, answers 403 or 404 without session     *)
(* data and writes nothing: a step that does not answer so and leave the   *)
(* tables alone is no step of such a call.                                 *)
(***************************************************************************)
C8_ForeignSessionRejected ==
  [][\/ /\ response'.status \in {403, 404}
        /\ response'.session_id = 0
        /\ module_scores' = module_scores
        /\ test_sessions' = test_sessions
     \/ \A u \in Users, sid \in SessionIds :
          ~Owned(u, sid)
            => CASE response'.op = "get_session" -> ~get_session(u, sid)
                 [] response'.op = "get_progress" -> ~get_progress(u, sid)
                 [] response'.op = "start_module" ->
                      \A m \in ModuleName : ~start_module(u, sid, m)
                 [] response'.op = "submit_module" ->
                      \A m \in ModuleName : ~submit_module(u, sid, m, FaultEnv)
                 [] response'.op = "upload_speaking" -> ~upload_speaking(u, sid, FaultEnv)
                 [] response'.op = "get_result" -> ~get_result(u, sid)
                 [] OTHER -> TRUE]_vars

\* submit_module has answered 404 although every session id exists: the
\* session is another user's
C8_Witness ==
  /\ response.op = "submit_module"
  /\ response.status = 404
  /\ Len(test_sessions) = MaxSessions

(***************************************************************************)
(* C9: every step leaves the ModuleScore rows that exist unchanged: each   *)
(* row is still there, as often as before, with its score and cefr_level.  *)
(***************************************************************************)
C9_ScoresImmutable ==
  [][\A r \in BagToSet(module_scores) :
       /\ BagIn(r, module_scores')
       /\ CopiesIn(r, module_scores') >= CopiesIn(r, module_scores)]_vars

\* get_result has answered for a session that was finalized after its
\* ModuleScores were written
C9_Witness ==
  /\ response.op = "get_result"
  /\ response.status = 200
  /\ test_sessions[response.session_id].is_completed
  /\ ScoredModules(response.session_id) # {}

ModuleScoresOf(session_id) ==
  [k \in 1..Len(all_modules) |->
     (CHOOSE r \in SessionRows(module_scores, session_id) :
        r.module_name = all_modules[k]).score]

ObjectiveCall ==
  /\ call.fn = "evaluate_response"
  /\ call.result # None
  /\ call.data.type \in {"Reading", "Listening"}
  /\ call.data.correct_answers # None
  /\ call.data.correct_answers # Some(<< >>)

\* the positions where the learner's answer is there and equals the expected
\* answer without regard to case and surrounding blanks
MatchingPositions(user_answers, correct_answers) ==
  {i \in 1..Len(correct_answers) :
     /\ user_answers # None
     /\ i <= Len(user_answers[1])
     /\ SameAnswer(user_answers[1][i], correct_answers[i])}

(***************************************************************************)
(* C12: an objective evaluation with expected answers and as many weights  *)
(* returns a score in [0,100] that is 100 * (weight of the matching        *)
(* positions) / (weight of all positions), to the hundredth.  The weights  *)
(* are not constrained and the engine answers 0.0 when it has no model,    *)
(* so this fails.                                                          *)
(***************************************************************************)
C12_WeightedScore ==
  (/\ ObjectiveCall
   /\ call.data.weights # None
   /\ Len(call.data.weights[1]) = Len(call.data.correct_answers[1]))
    => LET correct_answers == call.data.correct_answers[1]
           weights == call.data.weights[1]
           matched == MatchingPositions(call.data.user_answers, correct_answers)
       IN /\ InRange(call.result[1])
          /\ SumSeq(weights) # 0
               => call.result[1] =
                    Round2(100 * Point * SumOver(matched, weights), SumSeq(weights))

(***************************************************************************)
(* C13: an objective evaluation with expected answers whose weights are    *)
(* absent, empty or not as many as the expected answers returns            *)
(* 100 * (number of matching positions) / (number of expected answers),    *)
(* to the hundredth.  The engine answers 0.0 when it has no model, so this *)
(* fails.                                                                  *)
(***************************************************************************)
C13_UniformFallback ==
  (/\ ObjectiveCall
   /\ \/ call.data.weights = None
      \/ Len(call.data.weights[1]) # Len(call.data.correct_answers[1]))
    => LET correct_answers == call.data.correct_answers[1]
           matched == MatchingPositions(call.data.user_answers, correct_answers)
       IN call.result[1] =
            Round2(100 * Point * Cardinality(matched), Len(correct_answers))

\* the CEFR levels in ascending order and the least average of each but A1
Levels == <<"A1", "A2", "B1", "B2", "C1", "C2">>

Thresholds == <<35, 50, 65, 80, 90>>

\* the position in Levels of the level of a non-empty score list: one more
\* than the number of thresholds its average reaches
LevelOfAverage(scores) ==
  1 + Cardinality({k \in DOMAIN Thresholds :
                     SumSeq(scores) >= Thresholds[k] * Point * Len(scores)})

\* avg(s) <= avg(t) for non-empty score lists
AverageAtMost(s, t) == SumSeq(s) * Len(t) <= SumSeq(t) * Len(s)

(***************************************************************************)
(* C14: calculate_overall_cefr returns A1 for the empty list and for a     *)
(* non-empty list the level of its average: C2 from 90, C1 from 80, B2     *)
(* from 65, B1 from 50, A2 from 35, else A1; a list with an average that   *)
(* is not greater gets a level that is not higher (so lists of equal       *)
(* average get the same level).                                            *)
(***************************************************************************)
C14_CefrStepFunction ==
  (call.fn = "calculate_overall_cefr" /\ call.result # None)
    => IF call.scores = << >> THEN call.result = Some("A1")
       ELSE /\ call.result = Some(Levels[LevelOfAverage(call.scores)])
            /\ \A other \in ScoreLists \ {<< >>} :
                 AverageAtMost(other, call.scores)
                   => \E i, j \in DOMAIN Levels :
                        /\ Levels[i] = calculate_overall_cefr(other)
                        /\ Some(Levels[j]) = call.result
                        /\ i <= j

\* a finished call whose average is exactly 90 while its first score is below
C14_Witness ==
  /\ call.fn = "calculate_overall_cefr"
  /\ call.result = Some("C2")
  /\ Len(call.scores) = 2
  /\ call.scores[1] < 90 * Point
  /\ SumSeq(call.scores) = 2 * 90 * Point

\* the scoring handlers answer is_test_completed = len(completed) >= 4,
\* completed read after save_score
ReportsCompletion(scores, session_id) ==
  BagCardinality(get_completed_modules(scores, session_id)) >= 4

(***************************************************************************)
(* C15: a step of submit_module or upload_speaking that answers 200 with a *)
(* score has added the ModuleScore, and when the answer reports the test   *)
(* completed the session is completed in the table.  The handlers ignore   *)
(* what save_score and save_final_result return, so this fails.            *)
(***************************************************************************)
C15_StorageErrorReported ==
  [][(response'.op \in {"submit_module", "upload_speaking"} /\ response'.status = 200)
       => /\ BagCardinality(module_scores') = BagCardinality(module_scores) + 1
          /\ ReportsCompletion(module_scores', response'.session_id)
               => test_sessions'[response'.session_id].is_completed]_vars

(***************************************************************************)
(* C16: a step of upload_speaking by the owner of the session with audio   *)
(* whose transcription is the empty string answers 400, adds no            *)
(* ModuleScore and leaves the session unchanged, so speaking is as open as *)
(* before.  Checked with storage faults.                                   *)
(***************************************************************************)
C16_EmptyTranscriptRejected ==
  [][response'.op = "upload_speaking"
       => \A u \in Users, sid \in SessionIds, heard \in SttOutcomes :
            (Owned(u, sid) /\ transcribe(heard) = "")
              => \/ /\ response'.status = 400
                    /\ response'.session_id = 0
                    /\ module_scores' = module_scores
                    /\ test_sessions' = test_sessions
                 \/ ~upload_speaking_of(u, sid, TRUE, heard, FaultEnv)]_vars

\* upload_speaking has answered that the audio could not be recognized for
\* a session that has scores but none for speaking
C16_Witness ==
  /\ response.op = "upload_speaking"
  /\ response.status = 400
  /\ response.detail = "Audio could not be recognized. Please try again."
  /\ \E i \in DOMAIN test_sessions :
       ScoredModules(i) # {} /\ "speaking" \notin ScoredModules(i)

(***************************************************************************)
(* C17: a finished call of evaluate_response for Writing or Speaking whose *)
(* provider is unavailable, raises, or answers with text that is no number *)
(* has returned 0.0 (it has returned: the call does not raise).            *)
(***************************************************************************)
C17_SubjectiveFailsSoft ==
  (/\ call.fn = "evaluate_response"
   /\ call.result # None
   /\ call.data.type \in {"Writing", "Speaking"}
   /\ call.reply.kind \in {"unavailable", "raises", "text"})
    => call.result = Some(0)

\* a Writing evaluation has finished on text that is no number
C17_Witness ==
  /\ call.fn = "evaluate_response"
  /\ call.result # None
  /\ call.data.type = "Writing"
  /\ call.reply = Text

\* the subject of the token has an account that is not Active
SubjectNotActive(table, token) ==
  LET user == user_by_id(table, token.sub)
  IN user # None /\ user[1].account_status # "Active"

\* a request for one of the six operations of the administrators
AdminRequest(token) ==
  \/ get_admin_stats(token)
  \/ get_all_users(token)
  \/ \E email \in Emails : admin_create_user(token, email)
  \/ \E user_id \in Users, data \in UserUpdates : admin_update_user(token, user_id, data)
  \/ get_test_config(token)
  \/ \E data \in ConfigUpdates : update_test_config(token, data)

\* a request for any operation that declares the current user
AuthenticatedRequest(token) ==
  \/ get_me(token)
  \/ logout(token)
  \/ AdminRequest(token)
  \/ start_test_request(token, AuthEnv)
  \/ \E sid \in SessionIds : get_session_request(token, sid)
  \/ \E sid \in SessionIds : get_progress_request(token, sid)
  \/ \E sid \in SessionIds, m \in ModuleName : start_module_request(token, sid, m)
  \/ \E sid \in SessionIds, m \in ModuleName : submit_module_request(token, sid, m, AuthEnv)
  \/ \E sid \in SessionIds : upload_speaking_request(token, sid, AuthEnv)
  \/ \E sid \in SessionIds : get_result_request(token, sid)
  \/ get_history_request(token)

\* C18: every authenticated operation invoked with a token whose subject is
\* an account that is not Active at the time of the call answers 401 or 403
\* and changes nothing but the response, whenever the status was changed;
\* and every token issued to such an account, by login or register, is one
\* the dependency refuses.
C18_NonActiveRejected ==
  [][/\ \A token \in TokenValues :
          SubjectNotActive(users, token) =>
            \/ response'.status \in {401, 403} /\ UNCHANGED <<tests, accounts>>
            \/ ~AuthenticatedRequest(token)
     /\ \A token \in tokens' :
          SubjectNotActive(users', token) =>
            get_current_user(users', tokens', token).status = 403]_vars

\* a suspended holder of an issued token was refused the start of a test
C18_Witness ==
  /\ response.op = "start_test"
  /\ response.status = 403
  /\ response.detail = "Account status"
  /\ \E token \in tokens : SubjectNotActive(users, token)

\* the subject of the token has an account whose role is not Admin
SubjectNotAdmin(table, token) ==
  LET user == user_by_id(table, token.sub)
  IN user # None /\ user[1].role # "Admin"

\* C19: each of the six admin operations (statistics, user listing, user
\* creation, user update, configuration read, configuration update) invoked
\* by a user whose role is not Admin is rejected with 401 or 403 and leaves
\* the users and the settings as they were.
C19_AdminOnly ==
  [][\A token \in TokenValues :
       SubjectNotAdmin(users, token) =>
         \/ response'.status \in {401, 403} /\ UNCHANGED <<users, admin_settings>>
         \/ ~AdminRequest(token)]_vars

\* an active student holding a token was refused the update of a user
C19_Witness ==
  /\ response.op = "admin_update_user"
  /\ response.status = 403
  /\ response.detail = "Admin privileges required."
  /\ \E token \in tokens :
       /\ SubjectNotAdmin(users, token)
       /\ ~SubjectNotActive(users, token)

Purposes == {"otp", "reset"}

\* the codes stored for a purpose and an address
AcceptableCodes(store, prefix, email) ==
  {code \in Codes : get(store, Key(prefix, email)) = Some(code)}

\* the handlers that read a code refuse with 400 exactly the codes that are
\* not the stored one, and a successful use empties the key
CodeUsed ==
  \A email \in Emails, code \in Codes :
    /\ verify_otp(email, code) =>
         (response'.status = 200 <=> code \in AcceptableCodes(redis, "otp", email))
    /\ \A password \in Passwords :
         /\ register(email, password, code, FaultEnv) =>
              /\ response'.status # 400 <=> code \in AcceptableCodes(redis, "otp", email)
              /\ response'.status = 201 => AcceptableCodes(redis', "otp", email) = {}
         /\ reset_password(email, code, password, FaultEnv) =>
              /\ response'.status # 400 <=> code \in AcceptableCodes(redis, "reset", email)
              /\ response'.status = 200 => AcceptableCodes(redis', "reset", email) = {}

\* the code mailed by a request is the only one acceptable afterwards
CodeIssued ==
  (response'.op \in {"request_otp", "forgot_password"} /\ response'.status = 200) =>
    AcceptableCodes(redis', outbox'[1].kind, outbox'[1].to) = {outbox'[1].code}

\* what is acceptable changes by a request for a code or a successful use
CodeKept ==
  \A prefix \in Purposes, email \in Emails :
    AcceptableCodes(redis', prefix, email) # AcceptableCodes(redis, prefix, email) =>
      \/ response'.op \in {"request_otp", "forgot_password"} /\ response'.status = 200
      \/ response'.op = "register" /\ response'.status = 201
      \/ response'.op = "reset_password" /\ response'.status = 200

\* C20: at any time at most one verification code per purpose and address
\* is acceptable, the most recently issued one not yet used successfully: a
\* new request_otp or forgot_password replaces the previous code, a
\* successful register or reset_password deletes the code it used, and no
\* other step changes what is acceptable.
C20_OneAcceptableCode ==
  [][/\ \A prefix \in Purposes, email \in Emails :
          Cardinality(AcceptableCodes(redis', prefix, email)) <= 1
     /\ CodeIssued
     /\ CodeKept
     /\ CodeUsed]_vars

\* a registration consumed its code while the code issued for the other
\* address is still waiting
C20_Witness ==
  /\ response.op = "register"
  /\ response.status = 201
  /\ \E email \in Emails :
       /\ user_by_email(users, email) # None
       /\ AcceptableCodes(redis, "otp", email) = {}
       /\ \E other \in Emails \ {email} : AcceptableCodes(redis, "otp", other) # {}

\* C21: a verification code is never accepted by verify_otp, register or
\* reset_password once its TTL since issuance has elapsed (600 s for
\* registration, 300 s for password reset), whichever store r is: each of
\* the three answers 400 for a key whose time has come.
C21_ExpiredNeverAccepted ==
  [][\A email \in Emails, code \in Codes :
       LET Elapsed(name) == name \in DOMAIN expiry /\ expiry[name] <= now
       IN
       /\ Elapsed(Key("otp", email)) =>
            /\ verify_otp(email, code) => response'.status = 400
            /\ \A password \in Passwords :
                 register(email, password, code, PlainEnv) => response'.status = 400
       /\ Elapsed(Key("reset", email)) =>
            \A password \in Passwords :
              reset_password(email, code, password, PlainEnv) => response'.status = 400]_vars

\* the default of each module, in minutes
DefaultMinutes(module_name) ==
  CASE module_name = "reading" -> 20
    [] module_name = "listening" -> 14
    [] module_name = "writing" -> 40
    [] module_name = "speaking" -> 3

\* the limit of the module in the active configuration
ConfiguredLimit(config, module_name) ==
  CASE module_name = "reading" -> config.reading_time_limit
    [] module_name = "listening" -> config.listening_time_limit
    [] module_name = "writing" -> config.writing_time_limit
    [] module_name = "speaking" -> config.speaking_time_limit

\* C22: the content start_module answers with carries the time limit of the
\* requested module: the limit of the active admin configuration for that
\* module when there is one, and otherwise the module's own default
\* (reading 20 minutes, listening 14, writing 40, speaking 3), in seconds.
C22_ModuleTimeLimit ==
  [][(response'.op = "start_module" /\ response'.status = 200) =>
       response'.time_limit =
         IF admin_settings # None
         THEN ConfiguredLimit(admin_settings[1], response'.module_name)
         ELSE 60 * DefaultMinutes(response'.module_name)]_vars

\* the place of a module in the fixed order
Place(module_name) ==
  CASE module_name = "reading" -> 1
    [] module_name = "listening" -> 2
    [] module_name = "speaking" -> 3
    [] module_name = "writing" -> 4

\* the modules that are not in the list
NotIn(list) == ModuleName \ {list[i] : i \in DOMAIN list}

\* C23: for every list of completed module names, get_remaining_modules
\* returns exactly the modules of the fixed order reading, listening,
\* speaking, writing that are not in the list, each once and in that order,
\* and get_next_module returns the first of them, or none when all four
\* are in the list.
C23_RemainingInOrder ==
  /\ (call.fn = "get_remaining_modules" /\ call.result # None) =>
       LET remaining == call.result[1]
       IN /\ {remaining[i] : i \in DOMAIN remaining} = NotIn(call.completed)
          /\ \A i, j \in DOMAIN remaining : i < j => Place(remaining[i]) < Place(remaining[j])
  /\ (call.fn = "get_next_module" /\ call.result # None) =>
       IF NotIn(call.completed) = {}
       THEN call.result[1] = None
       ELSE /\ call.result[1] # None
            /\ call.result[1][1] \in NotIn(call.completed)
            /\ \A m \in NotIn(call.completed) : Place(call.result[1][1]) <= Place(m)

\* writing is the only module left although the list repeats names and
\* holds one that is no module
C23_Witness ==
  /\ call.fn = "get_next_module"
  /\ call.result = Some(Some("writing"))
  /\ Len(call.completed) = 4
  /\ \E i \in DOMAIN call.completed : call.completed[i] = "grammar"

FullyScored(session_id) == ModuleName \subseteq ScoredModules(session_id)

C27_OneBucketingTable ==
  (call.fn = "score_to_cefr" /\ call.result # None)
    => call.result[1] = calculate_overall_cefr(<<call.score>>)

\* C28: register creates a User only if a registration code is stored for
\* the given email and equals the supplied otp_code; otherwise it answers
\* 400, creates no User and leaves the stored code in place. verify_otp
\* never creates a User and never consumes the code.
C28_RegistrationGatedByCode ==
  [][\A email \in Emails, otp_code \in Codes :
       /\ \A password \in Passwords :
            register(email, password, otp_code, FaultEnv) =>
              LET stored == /\ Key("otp", email) \in DOMAIN redis
                            /\ redis[Key("otp", email)] = otp_code
              IN
              /\ users' # users => stored
              /\ ~stored =>
                   /\ response'.status = 400
                   /\ users' = users
                   /\ tokens' = tokens
                   /\ redis' = redis
       /\ verify_otp(email, otp_code) => (users' = users /\ redis' = redis)]_vars

\* one address is registered, and a registration for the other address
\* was just refused while a code for it is still stored
C28_Witness ==
  /\ response.op = "register"
  /\ response.status = 400
  /\ \E email \in Emails :
       /\ user_by_email(users, email) # None
       /\ \E other \in Emails \ {email} :
            /\ user_by_email(users, other) = None
            /\ Key("otp", other) \in DOMAIN redis

\* the sessions whose is_completed is true
CompletedSessions ==
  {session_id \in DOMAIN test_sessions : test_sessions[session_id].is_completed}

\* C29: a session's lifecycle is monotonic. In every step each session
\* stays, the set of module names with a ModuleScore does not shrink, a
\* session whose is_completed is true keeps it, and the session that start
\* answers with is not one that was completed.
C29_MonotonicLifecycle ==
  [][/\ \A session_id \in DOMAIN test_sessions :
          /\ session_id \in DOMAIN test_sessions'
          /\ ScoredModules(session_id) \subseteq ScoredModules(session_id)'
     /\ CompletedSessions \subseteq CompletedSessions'
     /\ \A user \in Users :
          (start_test(user, FaultEnv) /\ response'.status = 201) =>
            response'.session_id \notin CompletedSessions]_vars

\* start answered with a second session of a student whose first session
\* is completed and keeps its scores
C29_Witness ==
  /\ response.op = "start_test"
  /\ response.status = 201
  /\ response.session_id \in DOMAIN test_sessions
  /\ \E session_id \in CompletedSessions :
       /\ session_id # response.session_id
       /\ test_sessions[session_id].student_id
            = test_sessions[response.session_id].student_id
       /\ FullyScored(session_id)

====
